---- MODULE Spec2Model ----
(***************************************************************************)
(* Model of the GDPR data manager and its HTTP handlers                    *)
(* (app/gdpr_compliance.py) and of the minimal feedback endpoint           *)
(* (app/minimal_feedback.py).                                              *)
(*                                                                         *)
(* The storage adapter, the database and the audit logger are external:    *)
(* each call to them either returns or raises, chosen nondeterministically *)
(* (bounded by MaxFaults injected failures per behaviour).                 *)
(***************************************************************************)
EXTENDS Integers, Sequences, FiniteSets, TLC

----------------------------------------------------------------------------
(* Bounds of the model *)

\* failures injected into external calls in one behaviour
MaxFaults == 1
\* HTTP requests served in one behaviour
MaxRequests == 2
\* rows and files present before the first request
MaxSeed == 1
\* the largest rating a feedback request carries (the smallest is -1)
MaxRatingInput == 6
\* rows and files stored before a user's export and deletion requests
MaxExportSeed == 2
\* audit records after which no further export request is served
MaxAudit == 3
\* runs of upgrade() in one behaviour
MaxUpgrades == 6
\* results one checker object records
MaxResults == 3

----------------------------------------------------------------------------
(* Identifiers.  A user id and a file name are strings, modelled as tuples *)
(* of characters so that Python's substring test can be computed.          *)

U1 == <<1>>
U12 == <<1, 2>>
Anonymous == <<0>>
Owners == {U1, U12}

\* list_files returns the files of a segment in the adapter's listing order
FileNameList == << <<1, 7>>, <<1, 2, 7>> >>
FileNames == {FileNameList[i] : i \in 1..Len(FileNameList)}

\* variant: a structured key, the owner's id followed by the one character
\* that names the file
Contains_as_key(filename, user_id) ==
    SubSeq(filename, 1, Len(filename) - 1) = user_id

\* `user_id in filename`
Contains(filename, user_id) ==
    \E i \in 1..(Len(filename) - Len(user_id) + 1) :
        SubSeq(filename, i, i + Len(user_id) - 1) = user_id

segments == <<"uploads", "scripts", "storyboards", "ratings">>
Segments == {segments[i] : i \in 1..Len(segments)}

database_tables == << <<"feedback", "user_id">>,
                      <<"scripts", "user_id">>,
                      <<"content", "uploader_id">>,
                      <<"analytics", "user_id">>,
                      <<"audit_logs", "user_id">>,
                      <<"system_logs", "user_id">> >>
Tables == {database_tables[i][1] : i \in 1..Len(database_tables)}

allowed_tables == {"content", "feedback", "scripts", "analytics", "audit_logs", "system_logs"}
allowed_columns == {"user_id", "uploader_id"}

\* the column of a table that holds the owning user's id
OwnerColumn(table) == IF table = "content" THEN "uploader_id" ELSE "user_id"

\* the order in which delete_user_data calls its eight steps
SweepSteps == <<"files">> \o [i \in 1..Len(database_tables) |-> database_tables[i][1]]
                 \o <<"user_profile">>

----------------------------------------------------------------------------
(* Outcomes of the external calls *)

\* storage_adapter.delete_file: returns True, returns False, or raises
DeleteFileOutcomes == {"deleted", "refused", "raise"}
\* one database call sequence connect / execute / commit / close:
\* the first call that raises, if any
DbOutcomes == {"ok", "connect_error", "execute_error", "commit_error", "close_error"}
\* audit_logger.log_action and response construction
CallOutcomes == {"ok", "raise"}

SeqToSet(s) == {s[i] : i \in 1..Len(s)}

VARIABLES
    postgres,    \* 'postgresql' in os.getenv("DATABASE_URL", "")
    files,       \* storage: segment -> set of file names
    rows,        \* database: table -> set of rows (with "user" for the user table)
    executed,    \* statements the last database operation handed to cur.execute
    audit,       \* records written by audit_logger.log_action
    pc,          \* position of the request being served
    req,         \* the request being served, or the last one served
    res,         \* deletion_results of the running sweep
    idx,         \* loop index (segment, then table) of the running sweep
    steps,       \* history: the steps the running sweep has called, whether an
                 \* exception was raised in each and how much each removed
    response,    \* the response of the last request served
    faults,      \* failures injected so far
    nreq,        \* requests served so far
    swept,       \* history: users for whom a sweep has returned
    next_id,     \* the next value of the feedback table's id sequence
    export_data, \* the bundle the last call of export_user_data returned
    schema,      \* migrations: the tables, columns, indexes and constraints of
                 \* the database the migration scripts run against
    upgrades,    \* history: the upgrade() runs so far, with how each ended
    validator,   \* DeploymentValidator: validation_results, deployment_healthy
    checker,     \* ProductionReadinessChecker: checks, overall_status
    run,         \* the running operational script: its position, the clock it
                 \* reads, its timeout, and the history of its probes
    conc         \* two sweeps served at the same time: the position of each,
                 \* and the history of what each committed

\* the variables of the migration scripts and of the operational scripts
opsVars == <<schema, upgrades, validator, checker, run, conc>>

vars == <<postgres, files, rows, executed, audit, pc, req, res, idx, steps,
          response, faults, nreq, swept, next_id, export_data, opsVars>>
----------------------------------------------------------------------------
(* State before the first request *)

Row(owner) == [id |-> 0, owner |-> owner]
\* a feedback row written by the main application
FeedbackSeedRow(owner) ==
    [id |-> 0, owner |-> owner, content_id |-> "c0", event_type |-> "view",
     rating |-> 3, comment |-> "", reward |-> [num |-> 0, den |-> 1]]
SeedRow(table, owner) == IF table = "feedback" THEN FeedbackSeedRow(owner) ELSE Row(owner)

\* the tables of the model: those the sweep deletes from, the user table, and
\* the table script that migration 004 creates and the export reads
AllTables == Tables \cup {"user", "script"}
SeedItems == {<<"row", t, u>> : t \in Tables, u \in Owners}
                 \cup {<<"file", s, f>> : s \in Segments, f \in FileNames}

NoRequest == [route |-> "none", user |-> U1, confirm |-> FALSE,
              audit0 |-> 0, clean |-> FALSE, again |-> FALSE]
NoResponse == [code |-> 0, status |-> "", deleted_data_types |-> <<>>]
NoResult == [deleted_data_types |-> <<>>, failed_deletions |-> <<>>,
             files_deleted |-> <<>>, status |-> "none"]
\* before the first call of export_user_data
NoBundle == [data_types |-> <<>>]
\* before two deletion requests are served at the same time
NoConc == [started |-> FALSE, rows0 |-> <<>>, at |-> <<>>, committed |-> <<>>,
           overlap |-> FALSE]
\* before an operational script is started
NoRun == [pc |-> "init", caller |-> "none", timeout |-> 0, start_time |-> 0,
          now |-> 0, wake |-> 0, last |-> "none", slept |-> FALSE,
          ready |-> "none", result |-> "none", sent |-> {}, checked |-> {}]

\* The migration scripts and the operational scripts before their first
\* step: an empty database, no upgrade run, and the two checker objects as
\* their constructors leave them.
InitOps ==
    /\ schema = {}
    /\ upgrades = <<>>
    /\ validator = [validation_results |-> <<>>, deployment_healthy |-> TRUE]
    /\ checker = [checks |-> <<>>, overall_status |-> TRUE]
    /\ run = NoRun
    /\ conc = NoConc

\* The rows are those of the PostgreSQL database that DATABASE_URL names:
\* without one there is no row this module can reach.  With one, every
\* user who can send a request has a row in the user table, and up to
\* MaxSeed dependent rows and files are stored.
InitSeededWith(items, max) ==
    /\ postgres \in BOOLEAN
    /\ \E S \in SUBSET items :
        /\ Cardinality(S) <= max
        /\ ~postgres => \A x \in S : x[1] = "file"
        /\ rows = [t \in AllTables |->
                     IF t = "user"
                     THEN {Row(u) : u \in IF postgres THEN Owners ELSE {}}
                     ELSE {SeedRow(t, u) : u \in {v \in Owners : <<"row", t, v>> \in S}}]
        /\ files = [s \in Segments |-> {f \in FileNames : <<"file", s, f>> \in S}]
    /\ executed = {}
    /\ audit = <<>>
    /\ pc = "idle"
    /\ req = NoRequest
    /\ res = NoResult
    /\ idx = 0
    /\ steps = <<>>
    /\ response = NoResponse
    /\ faults = 0
    /\ nreq = 0
    /\ swept = {}
    /\ next_id = 1
    /\ export_data = NoBundle
    /\ InitOps

InitSeeded == InitSeededWith(SeedItems, MaxSeed)

\* nothing of this user is stored: no file, no dependent row, no user row
Clean(user_id) ==
    /\ \A s \in Segments : \A f \in files[s] : ~Contains(f, user_id)
    /\ \A t \in AllTables : \A r \in rows[t] : r.owner # user_id

----------------------------------------------------------------------------
(* GDPRDataManager: the helpers of the deletion sweep *)

\* the most files a listing returns
max_keys == 1000

\* storage_adapter.list_files(segment, max_keys=1000)
list_files(segment) ==
    LET stored == SelectSeq(FileNameList, LAMBDA f : f \in files[segment]) IN
    IF Len(stored) <= max_keys THEN stored ELSE SubSeq(stored, 1, max_keys)

\* The inner loop of _delete_user_files over one listing; o gives what
\* delete_file does for each file name.  The result is the files deleted,
\* in order, and whether delete_file raised (which ends this segment).
RECURSIVE delete_listed(_, _, _, _)
delete_listed(listing, user_id, o, deleted) ==
    IF listing = <<>> THEN [deleted |-> deleted, raised |-> FALSE]
    ELSE LET filename == Head(listing) IN
         IF ~Contains(filename, user_id)
         THEN delete_listed(Tail(listing), user_id, o, deleted)
         ELSE IF o[filename] = "raise"
         THEN [deleted |-> deleted, raised |-> TRUE]
         ELSE IF o[filename] = "deleted"
         THEN delete_listed(Tail(listing), user_id, o, Append(deleted, filename))
         ELSE delete_listed(Tail(listing), user_id, o, deleted)

\* files of the listing for which delete_file is called and does not return True
RECURSIVE undeleted(_, _, _)
undeleted(listing, user_id, o) ==
    IF listing = <<>> THEN 0
    ELSE LET filename == Head(listing) IN
         IF ~Contains(filename, user_id) THEN undeleted(Tail(listing), user_id, o)
         ELSE IF o[filename] = "raise" THEN 1
         ELSE IF o[filename] = "refused" THEN 1 + undeleted(Tail(listing), user_id, o)
         ELSE undeleted(Tail(listing), user_id, o)

\* variant: the statement is built and executed without the allow-list check
delete_user_records_unchecked(table, user_column, user_id, o) ==
    LET same == [raised |-> FALSE, error |-> "none", count |-> 0,
                 rows |-> rows, executed |-> {}]
        ex == {[fn |-> "delete_user_records", table |-> table, column |-> user_column]}
    IN
    IF ~postgres THEN same
    ELSE IF o = "connect_error" THEN [same EXCEPT !.raised = TRUE, !.error = "db"]
    ELSE IF table \notin Tables \/ o \in {"execute_error", "commit_error"}
              \/ user_column # OwnerColumn(table)
    THEN [same EXCEPT !.raised = TRUE, !.error = "db", !.executed = ex]
    ELSE LET gone == {r \in rows[table] : r.owner = user_id}
             after == [rows EXCEPT ![table] = @ \ gone]
         IN
         IF o = "close_error"
         THEN [same EXCEPT !.raised = TRUE, !.error = "db", !.executed = ex,
                           !.rows = after]
         ELSE [same EXCEPT !.count = Cardinality(gone), !.executed = ex, !.rows = after]

\* _delete_user_records.  o is the first database call that raises, if any.
\* The result carries the database and the statement log after the call.
delete_user_records(table, user_column, user_id, o) ==
    LET same == [raised |-> FALSE, error |-> "none", count |-> 0,
                 rows |-> rows, executed |-> {}]
        stmt == [fn |-> "delete_user_records", table |-> table, column |-> user_column]
    IN
    IF ~postgres THEN same
    ELSE IF o = "connect_error" THEN [same EXCEPT !.raised = TRUE, !.error = "db"]
    ELSE IF table \notin allowed_tables \/ user_column \notin allowed_columns
    THEN [same EXCEPT !.raised = TRUE, !.error = "ValueError"]
    ELSE LET ex == {stmt}
             gone == {r \in rows[table] : r.owner = user_id}
             after == [rows EXCEPT ![table] = @ \ gone]
         IN
         IF o = "execute_error" \/ user_column # OwnerColumn(table)
         THEN [same EXCEPT !.raised = TRUE, !.error = "db", !.executed = ex]
         ELSE IF o = "commit_error"
         THEN [same EXCEPT !.raised = TRUE, !.error = "db", !.executed = ex]
         ELSE IF o = "close_error"
         THEN [same EXCEPT !.raised = TRUE, !.error = "db", !.executed = ex,
                           !.rows = after]
         ELSE [same EXCEPT !.count = Cardinality(gone), !.executed = ex, !.rows = after]

\* variant: DELETE FROM "user" WHERE user_id LIKE '%' || %s || '%'
delete_user_profile_like(user_id, o) ==
    LET same == [raised |-> FALSE, deleted |-> FALSE, rows |-> rows, executed |-> {}]
        ex == {[fn |-> "delete_user_profile", table |-> "user", column |-> "user_id"]}
        gone == {r \in rows["user"] : Contains(r.owner, user_id)}
        after == [rows EXCEPT !["user"] = @ \ gone]
    IN
    IF ~postgres THEN same
    ELSE IF o = "connect_error" THEN [same EXCEPT !.raised = TRUE]
    ELSE IF o \in {"execute_error", "commit_error"}
    THEN [same EXCEPT !.raised = TRUE, !.executed = ex]
    ELSE IF o = "close_error"
    THEN [same EXCEPT !.raised = TRUE, !.executed = ex, !.rows = after]
    ELSE [same EXCEPT !.deleted = (Cardinality(gone) > 0), !.executed = ex, !.rows = after]

\* _delete_user_profile
delete_user_profile(user_id, o) ==
    LET same == [raised |-> FALSE, deleted |-> FALSE, rows |-> rows, executed |-> {}]
        ex == {[fn |-> "delete_user_profile", table |-> "user", column |-> "user_id"]}
        gone == {r \in rows["user"] : r.owner = user_id}
        after == [rows EXCEPT !["user"] = @ \ gone]
    IN
    IF ~postgres THEN same
    ELSE IF o = "connect_error" THEN [same EXCEPT !.raised = TRUE]
    ELSE IF o \in {"execute_error", "commit_error"}
    THEN [same EXCEPT !.raised = TRUE, !.executed = ex]
    ELSE IF o = "close_error"
    THEN [same EXCEPT !.raised = TRUE, !.executed = ex, !.rows = after]
    ELSE [same EXCEPT !.deleted = (Cardinality(gone) > 0), !.executed = ex, !.rows = after]

\* variant: the status is computed from the database kinds alone
final_status_of_tables(r) ==
    IF Len(r.failed_deletions) = 0 THEN "completed"
    ELSE IF SeqToSet(r.deleted_data_types) \ {"files"} # {} THEN "partially_completed"
    ELSE "failed"

\* delete_user_data, "Update status"
final_status(r) ==
    IF Len(r.failed_deletions) = 0 THEN "completed"
    ELSE IF Len(r.deleted_data_types) > 0 THEN "partially_completed"
    ELSE "failed"

\* what a database outcome costs of the failure budget
Cost(o) == IF o = "ok" THEN 0 ELSE 1
DbChoices == IF postgres THEN DbOutcomes ELSE {"ok"}
----------------------------------------------------------------------------
(* DELETE /gdpr/delete-data: the route handler and GDPRDataManager.delete_user_data *)

\* variant: the confirmation is checked inside the try block, whose except
\* clause logs the failure and answers 500
delete_data_route_checked_in_try(user_id, confirm) ==
    /\ pc = "idle"
    /\ nreq < MaxRequests
    /\ nreq' = nreq + 1
    /\ req' = [route |-> "delete", user |-> user_id, confirm |-> confirm,
               audit0 |-> Len(audit), clean |-> Clean(user_id),
               again |-> user_id \in swept]
    /\ IF ~confirm
       THEN /\ response' = [code |-> 500, status |-> "", deleted_data_types |-> <<>>]
            /\ audit' = Append(audit, [action |-> "data_deletion", user |-> user_id,
                                       status |-> "failed"])
            /\ pc' = "idle"
            /\ UNCHANGED <<res, idx, steps>>
       ELSE /\ response' = [code |-> 0, status |-> "", deleted_data_types |-> <<>>]
            /\ audit' = audit
            /\ pc' = "files"
            /\ res' = [deleted_data_types |-> <<>>, failed_deletions |-> <<>>,
                       files_deleted |-> <<>>, status |-> "in_progress"]
            /\ idx' = 1
            /\ steps' = <<>>
    /\ UNCHANGED <<export_data, opsVars>>
    /\ UNCHANGED <<postgres, files, rows, executed, faults, swept, next_id>>

\* The handler up to the call of gdpr_manager.delete_user_data, and the
\* initial deletion_results (user_id, request_id, reason and the timestamp
\* are carried through unchanged and left out).
delete_data_route(user_id, confirm) ==
    /\ pc = "idle"
    /\ nreq < MaxRequests
    /\ nreq' = nreq + 1
    /\ req' = [route |-> "delete", user |-> user_id, confirm |-> confirm,
               audit0 |-> Len(audit), clean |-> Clean(user_id),
               again |-> user_id \in swept]
    /\ IF ~confirm
       THEN /\ response' = [NoResponse EXCEPT !.code = 400]
            /\ pc' = "idle"
            /\ UNCHANGED <<res, idx, steps>>
       ELSE /\ response' = NoResponse
            /\ pc' = "files"
            /\ res' = [NoResult EXCEPT !.status = "in_progress"]
            /\ idx' = 1
            /\ steps' = <<>>
    /\ UNCHANGED <<export_data, opsVars>>
    /\ UNCHANGED <<postgres, files, rows, executed, audit, faults, swept, next_id>>

\* variant: the "files" kind is listed only when a file was deleted
files_done_if_any(r) ==
    IF Len(r.files_deleted) > 0
    THEN [r EXCEPT !.deleted_data_types = Append(@, "files")]
    ELSE r

\* delete_user_data after _delete_user_files has returned
files_done(r) == [r EXCEPT !.deleted_data_types = Append(@, "files")]

\* One iteration of the segment loop of _delete_user_files.  deleted_files,
\* the function's local list, is kept in res.files_deleted from the start.
delete_user_files_segment ==
    /\ pc = "files"
    /\ LET segment == segments[idx]
           listing == list_files(segment)
           before == IF idx = 1 THEN [step |-> "files", failed |-> FALSE, removed |-> 0]
                     ELSE steps[1]
           last == idx = Len(segments)
       IN
       /\ \/ \* list_files raises: logged, next segment
             /\ faults < MaxFaults
             /\ faults' = faults + 1
             /\ files' = files
             /\ steps' = <<[before EXCEPT !.failed = TRUE]>>
             /\ res' = IF last THEN files_done(res) ELSE res
          \/ \E o \in [FileNames -> DeleteFileOutcomes] :
             LET d == delete_listed(listing, req.user, o, <<>>)
                 cost == undeleted(listing, req.user, o)
             IN
             /\ \A f \in FileNames :
                    (f \notin files[segment] \/ ~Contains(f, req.user)) => o[f] = "deleted"
             /\ cost <= MaxFaults - faults
             /\ faults' = faults + cost
             /\ files' = [files EXCEPT ![segment] = @ \ SeqToSet(d.deleted)]
             /\ steps' = <<[before EXCEPT !.failed = @ \/ d.raised,
                                          !.removed = @ + Len(d.deleted)]>>
             /\ LET r == [res EXCEPT !.files_deleted =
                              @ \o [i \in 1..Len(d.deleted) |-> <<segment, d.deleted[i]>>]]
                IN res' = IF last THEN files_done(r) ELSE r
       /\ IF last THEN pc' = "tables" /\ idx' = 1
                  ELSE pc' = pc /\ idx' = idx + 1
    /\ UNCHANGED <<export_data, opsVars>>
    /\ UNCHANGED <<postgres, rows, executed, audit, req, response, nreq, swept, next_id>>

\* variant: a failing table delete is logged but not recorded
record_table_unrecorded(r, table, d) ==
    IF d.raised THEN r
    ELSE IF d.count > 0 THEN [r EXCEPT !.deleted_data_types = Append(@, table)]
    ELSE r

\* the body of the table loop of delete_user_data around _delete_user_records
record_table(r, table, d) ==
    IF d.raised THEN [r EXCEPT !.failed_deletions = Append(@, table)]
    ELSE IF d.count > 0 THEN [r EXCEPT !.deleted_data_types = Append(@, table)]
    ELSE r

\* variant: the exception of a failing table delete leaves delete_user_data
table_loop_next_uncaught(i, raised) ==
    IF raised THEN [pc |-> "except", idx |-> 0]
    ELSE IF i < Len(database_tables) THEN [pc |-> "tables", idx |-> i + 1]
    ELSE [pc |-> "profile", idx |-> 0]

\* Where the table loop goes after iteration i: the try/except inside the
\* loop catches every exception, so the loop always goes on.
table_loop_next(i, raised) ==
    IF i < Len(database_tables) THEN [pc |-> "tables", idx |-> i + 1]
    ELSE [pc |-> "profile", idx |-> 0]

\* One iteration of the table loop of delete_user_data
delete_table_step ==
    /\ pc = "tables"
    /\ \E o \in DbChoices :
        LET table == database_tables[idx][1]
            user_column == database_tables[idx][2]
            d == delete_user_records(table, user_column, req.user, o)
        IN
        /\ Cost(o) <= MaxFaults - faults
        /\ faults' = faults + Cost(o)
        /\ rows' = d.rows
        /\ executed' = d.executed
        /\ res' = record_table(res, table, d)
        /\ steps' = Append(steps, [step |-> table, failed |-> d.raised,
                       removed |-> Cardinality(rows[table] \ d.rows[table])])
        /\ pc' = table_loop_next(idx, d.raised).pc
        /\ idx' = table_loop_next(idx, d.raised).idx
    /\ UNCHANGED <<export_data, opsVars>>
    /\ UNCHANGED <<postgres, files, audit, req, response, nreq, swept, next_id>>

\* variant: the profile is listed whenever the delete did not raise
record_profile_always(r, d) ==
    IF d.raised THEN [r EXCEPT !.failed_deletions = Append(@, "user_profile")]
    ELSE [r EXCEPT !.deleted_data_types = Append(@, "user_profile")]

\* delete_user_data around _delete_user_profile
record_profile(r, d) ==
    IF d.raised THEN [r EXCEPT !.failed_deletions = Append(@, "user_profile")]
    ELSE IF d.deleted THEN [r EXCEPT !.deleted_data_types = Append(@, "user_profile")]
    ELSE r

\* The user row, then the status, then the return to the handler
delete_profile_step ==
    /\ pc = "profile"
    /\ \E o \in DbChoices :
        LET d == delete_user_profile(req.user, o)
            r == record_profile(res, d)
        IN
        /\ Cost(o) <= MaxFaults - faults
        /\ faults' = faults + Cost(o)
        /\ rows' = d.rows
        /\ executed' = d.executed
        /\ res' = [r EXCEPT !.status = final_status(r)]
        /\ steps' = Append(steps, [step |-> "user_profile", failed |-> d.raised,
                       removed |-> Cardinality(rows["user"] \ d.rows["user"])])
    /\ pc' = "audit"
    /\ swept' = swept \cup {req.user}
    /\ UNCHANGED <<export_data, opsVars>>
    /\ UNCHANGED <<postgres, files, audit, req, idx, response, nreq, next_id>>

AuditRecord(user_id, status) ==
    [action |-> "data_deletion", user |-> user_id, status |-> status]

\* audit_logger.log_action in the try block ("Log the deletion attempt")
log_deletion ==
    /\ pc = "audit"
    /\ \/ /\ audit' = Append(audit, AuditRecord(req.user, res.status))
          /\ pc' = "respond"
          /\ faults' = faults
       \/ /\ faults < MaxFaults
          /\ faults' = faults + 1
          /\ audit' = audit
          /\ pc' = "except"
    /\ UNCHANGED <<export_data, opsVars>>
    /\ UNCHANGED <<postgres, files, rows, executed, req, res, idx, steps,
                   response, nreq, swept, next_id>>

\* return DataDeletionResponse(...)
respond_deletion ==
    /\ pc = "respond"
    /\ \/ /\ response' = [code |-> 200, status |-> res.status,
                          deleted_data_types |-> res.deleted_data_types]
          /\ pc' = "idle"
          /\ faults' = faults
       \/ /\ faults < MaxFaults
          /\ faults' = faults + 1
          /\ response' = response
          /\ pc' = "except"
    /\ UNCHANGED <<export_data, opsVars>>
    /\ UNCHANGED <<postgres, files, rows, executed, audit, req, res, idx, steps,
                   nreq, swept, next_id>>

\* The except block of the handler: log the failure, answer 500.  When
\* log_action raises here the exception leaves the handler, which the
\* framework answers with 500 as well.
deletion_failed ==
    /\ pc = "except"
    /\ \/ /\ audit' = Append(audit, AuditRecord(req.user, "failed"))
          /\ faults' = faults
       \/ /\ faults < MaxFaults
          /\ faults' = faults + 1
          /\ audit' = audit
    /\ response' = [NoResponse EXCEPT !.code = 500]
    /\ pc' = "idle"
    /\ UNCHANGED <<export_data, opsVars>>
    /\ UNCHANGED <<postgres, files, rows, executed, req, res, idx, steps, nreq, swept,
                   next_id>>

----------------------------------------------------------------------------
(* Direct calls of the two operations that build a statement from a        *)
(* (table, column) pair                                                    *)

\* the allow-list inside the table loop of get_user_data_summary
summary_allowed_tables == {"content", "feedback", "scripts", "analytics", "audit_logs"}

\* The body of the table loop of get_user_data_summary for one pair: the
\* count, whether an exception reached the loop's except clause, and whether
\* summary["data_summary"][table] was set to the count before that.
count_user_records(table, user_column, user_id, o) ==
    LET same == [raised |-> FALSE, error |-> "none", count |-> 0, counted |-> FALSE,
                 executed |-> {}]
        stmt == [fn |-> "count_user_records", table |-> table, column |-> user_column]
    IN
    IF ~postgres THEN same
    ELSE IF o = "connect_error" THEN [same EXCEPT !.raised = TRUE, !.error = "db"]
    ELSE IF table \notin summary_allowed_tables \/ user_column \notin allowed_columns
    THEN [same EXCEPT !.raised = TRUE, !.error = "ValueError"]
    ELSE LET n == Cardinality({r \in rows[table] : r.owner = user_id}) IN
         IF o = "execute_error" \/ user_column # OwnerColumn(table)
         THEN [same EXCEPT !.raised = TRUE, !.error = "db", !.executed = {stmt}]
         ELSE IF o = "close_error"
         THEN [same EXCEPT !.raised = TRUE, !.error = "db", !.executed = {stmt},
                           !.count = n, !.counted = TRUE]
         ELSE [same EXCEPT !.count = n, !.counted = TRUE, !.executed = {stmt}]

\* table and column names a caller may pass
AnyTables == allowed_tables \cup {"user", "script"}
AnyColumns == allowed_columns \cup {"id"}
\* a SELECT has no commit to fail
CountChoices == DbChoices \ {"commit_error"}

Call(fn, table, user_column, user_id) ==
    [route |-> "call", fn |-> fn, table |-> table, column |-> user_column,
     user |-> user_id, confirm |-> FALSE]

\* gdpr_manager._delete_user_records(table, user_column, user_id)
call_delete_user_records(table, user_column, user_id) ==
    /\ pc = "idle"
    /\ nreq = 0
    /\ \E o \in DbChoices :
        LET d == delete_user_records(table, user_column, user_id, o) IN
        /\ Cost(o) <= MaxFaults - faults
        /\ faults' = faults + Cost(o)
        /\ rows' = d.rows
        /\ executed' = d.executed
        /\ response' = [raised |-> d.raised, error |-> d.error, count |-> d.count]
    /\ nreq' = nreq + 1
    /\ req' = Call("delete_user_records", table, user_column, user_id)
    /\ UNCHANGED <<export_data, opsVars>>
    /\ UNCHANGED <<postgres, files, audit, pc, res, idx, steps, swept, next_id>>

\* one iteration of the table loop of get_user_data_summary
call_count_user_records(table, user_column, user_id) ==
    /\ pc = "idle"
    /\ nreq = 0
    /\ \E o \in CountChoices :
        LET d == count_user_records(table, user_column, user_id, o) IN
        /\ Cost(o) <= MaxFaults - faults
        /\ faults' = faults + Cost(o)
        /\ executed' = d.executed
        /\ response' = [raised |-> d.raised, error |-> d.error, count |-> d.count]
    /\ nreq' = nreq + 1
    /\ req' = Call("count_user_records", table, user_column, user_id)
    /\ UNCHANGED <<export_data, opsVars>>
    /\ UNCHANGED <<postgres, files, rows, audit, pc, res, idx, steps, swept, next_id>>

NextCalls ==
    \/ \E t \in AnyTables, c \in AnyColumns, u \in Owners : call_delete_user_records(t, c, u)
    \/ \E t \in AnyTables, c \in AnyColumns, u \in Owners : call_count_user_records(t, c, u)

SpecCalls == InitSeeded /\ [][NextCalls]_vars

----------------------------------------------------------------------------
(* POST /feedback-minimal (app/minimal_feedback.py) *)

RatingInputs == (0 - 1)..MaxRatingInput
ContentIds == {"c1", "c2"}

\* variant: integer division, (f.rating - 3) // 2
reward_of_floor(rating) == [num |-> (rating - 3) \div 2, den |-> 1]

\* reward = (f.rating - 3) / 2.0, as a fraction in lowest terms
reward_of(rating) ==
    LET n == rating - 3 IN
    IF n % 2 = 0 THEN [num |-> n \div 2, den |-> 1] ELSE [num |-> n, den |-> 2]

\* event_type = 'like' if f.rating >= 4 else 'view'
event_type_of(rating) == IF rating >= 4 THEN "like" ELSE "view"

\* the status of the response when the try block raises exc:
\* `except Exception` catches the HTTPException of the rating check too
feedback_error_code(exc) == 500

FeedbackRequest(content_id, rating, comment) ==
    [route |-> "feedback", content_id |-> content_id, rating |-> rating,
     comment |-> comment, user |-> Anonymous, confirm |-> FALSE]

\* The whole handler.  psycopg2.connect has no guard here: it raises when
\* DATABASE_URL names no PostgreSQL database.
feedback_minimal(content_id, rating, comment) ==
    /\ pc = "idle"
    /\ nreq < MaxRequests
    /\ nreq' = nreq + 1
    /\ req' = FeedbackRequest(content_id, rating, comment)
    /\ LET row == [id |-> next_id, owner |-> Anonymous, content_id |-> content_id,
                   event_type |-> event_type_of(rating), rating |-> rating,
                   comment |-> comment, reward |-> reward_of(rating)]
           stmt == [fn |-> "feedback_minimal", table |-> "feedback", column |-> "user_id"]
           failure(exc) == [code |-> feedback_error_code(exc), status |-> "error",
                            feedback_id |-> 0, rating |-> rating]
       IN
       IF ~(1 <= rating /\ rating <= 5)
       THEN /\ response' = failure("HTTPException 400")
            /\ UNCHANGED <<rows, executed, next_id, faults>>
       ELSE \E o \in (IF postgres THEN DbOutcomes ELSE {"connect_error"}) :
            /\ Cost(o) <= MaxFaults - faults \/ ~postgres
            /\ faults' = IF postgres THEN faults + Cost(o) ELSE faults
            /\ IF o = "connect_error"
               THEN /\ response' = failure("OperationalError")
                    /\ UNCHANGED <<rows, executed, next_id>>
               ELSE IF o = "execute_error"
               THEN /\ response' = failure("DatabaseError")
                    /\ executed' = {stmt}
                    /\ UNCHANGED <<rows, next_id>>
               ELSE IF o = "commit_error"
               THEN /\ response' = failure("DatabaseError")
                    /\ executed' = {stmt}
                    /\ next_id' = next_id + 1
                    /\ rows' = rows
               ELSE /\ executed' = {stmt}
                    /\ next_id' = next_id + 1
                    /\ rows' = [rows EXCEPT !["feedback"] = @ \cup {row}]
                    /\ response' = IF o = "close_error" THEN failure("DatabaseError")
                                   ELSE [code |-> 200, status |-> "success",
                                         feedback_id |-> next_id, rating |-> rating]
    /\ UNCHANGED <<export_data, opsVars>>
    /\ UNCHANGED <<postgres, files, audit, pc, res, idx, steps, swept>>

NextFeedback ==
    \E c \in ContentIds, r \in RatingInputs : feedback_minimal(c, r, "")

InitFeedback ==
    /\ postgres \in BOOLEAN
    /\ \E owners \in SUBSET Owners :
        /\ Cardinality(owners) <= MaxSeed
        /\ ~postgres => owners = {}
        /\ rows = [t \in AllTables |->
                     IF t = "feedback" THEN {FeedbackSeedRow(u) : u \in owners} ELSE {}]
    /\ files = [s \in Segments |-> {}]
    /\ executed = {}
    /\ audit = <<>>
    /\ pc = "idle"
    /\ req = NoRequest
    /\ res = NoResult
    /\ idx = 0
    /\ steps = <<>>
    /\ response = NoResponse
    /\ faults = 0
    /\ nreq = 0
    /\ swept = {}
    /\ next_id = 1
    /\ export_data = NoBundle
    /\ InitOps

SpecFeedback == InitFeedback /\ [][NextFeedback]_vars

----------------------------------------------------------------------------
(* The deletion requests *)

Next ==
    \/ \E u \in Owners, c \in BOOLEAN : delete_data_route(u, c)
    \/ delete_user_files_segment
    \/ delete_table_step
    \/ delete_profile_step
    \/ log_deletion
    \/ respond_deletion
    \/ deletion_failed

Init == InitSeeded

Spec == Init /\ [][Next]_vars
----------------------------------------------------------------------------
(* Two deletion requests served at the same time by two worker processes. *)
(* The module-level gdpr_manager keeps no state between calls; each        *)
(* database call of a sweep opens its own connection and commits on its    *)
(* own, so the database calls of two sweeps may interleave in any order.   *)
(* Only the database steps of a sweep are followed here.                   *)

\* the database steps of delete_user_data: the six tables, then the profile
DatabaseSteps == SubSeq(SweepSteps, 2, Len(SweepSteps))

\* both requests have been accepted and each sweep is before its first
\* database step
concurrent_requests ==
    /\ pc = "idle"
    /\ nreq = 0
    /\ ~conc.started
    /\ conc' = [started |-> TRUE, rows0 |-> rows,
                at |-> [u \in Owners |-> 1],
                committed |-> [u \in Owners |-> {}],
                overlap |-> FALSE]
    /\ UNCHANGED <<postgres, files, rows, executed, audit, pc, req, res, idx, steps,
                   response, faults, nreq, swept, next_id, export_data>>
    /\ UNCHANGED <<schema, upgrades, validator, checker, run>>

\* The next database step of the sweep for user_id: _delete_user_records on
\* the next table, or _delete_user_profile after the last one.
sweep_step(user_id) ==
    /\ conc.started
    /\ conc.at[user_id] <= Len(DatabaseSteps)
    /\ \E o \in DbChoices :
        LET i == conc.at[user_id]
            d == IF i <= Len(database_tables)
                 THEN delete_user_records(database_tables[i][1], database_tables[i][2],
                                          user_id, o)
                 ELSE delete_user_profile(user_id, o)
            done == postgres /\ o \in {"ok", "close_error"}
        IN
        /\ Cost(o) <= MaxFaults - faults
        /\ faults' = faults + Cost(o)
        /\ rows' = d.rows
        /\ executed' = d.executed
        /\ conc' = [conc EXCEPT
               !.at[user_id] = i + 1,
               !.committed[user_id] = IF done THEN @ \cup {DatabaseSteps[i]} ELSE @,
               !.overlap = @ \/ \E v \in Owners \ {user_id} :
                                    1 < conc.at[v] /\ conc.at[v] <= Len(DatabaseSteps)]
    /\ UNCHANGED <<postgres, files, audit, pc, req, res, idx, steps,
                   response, nreq, swept, next_id, export_data>>
    /\ UNCHANGED <<schema, upgrades, validator, checker, run>>

ConcurrentSeedItems == {<<"row", t, u>> : t \in {"feedback", "content"}, u \in Owners}

InitConcurrent == InitSeededWith(ConcurrentSeedItems, MaxSeed)

NextConcurrent ==
    \/ concurrent_requests
    \/ \E u \in Owners : sweep_step(u)

SpecConcurrent == InitConcurrent /\ [][NextConcurrent]_vars
----------------------------------------------------------------------------
(* GET /gdpr/export-data: the route handler and GDPRDataManager.export_user_data *)

export_kinds == <<"user_profile", "content", "feedback", "scripts", "analytics",
                  "audit_logs">>
ExportKinds == SeqToSet(export_kinds)

\* the table each _export_user_* helper reads: the scripts come FROM script
export_table(kind) ==
    IF kind = "user_profile" THEN "user"
    ELSE IF kind = "scripts" THEN "script"
    ELSE kind

\* what the database does in one helper (a SELECT has no commit)
FetchOutcomes == {"ok", "connect_error", "execute_error", "close_error"}
FetchChoices == IF postgres THEN FetchOutcomes ELSE {"ok"}

\* variant: the helper's SELECT has no WHERE clause
export_fetch_all(kind, user_id, o) ==
    LET mine == rows[export_table(kind)] IN
    IF kind = "user_profile" THEN (IF o = "ok" THEN mine ELSE {})
    ELSE IF ~postgres THEN {}
    ELSE IF o \in {"ok", "close_error"} THEN mine
    ELSE {}

\* One _export_user_* helper: the rows it returns.  Every helper catches its
\* own exceptions and returns what it has collected: nothing when connect or
\* execute raised, every row when only the close raised.  The profile is
\* read through DatabaseManager.get_user_by_id, the five lists only when
\* DATABASE_URL names PostgreSQL.
export_fetch(kind, user_id, o) ==
    LET mine == {r \in rows[export_table(kind)] : r.owner = user_id} IN
    IF kind = "user_profile" THEN (IF o = "ok" THEN mine ELSE {})
    ELSE IF ~postgres THEN {}
    ELSE IF o \in {"ok", "close_error"} THEN mine
    ELSE {}

\* dict[key] = value
Put(dict, key, value) ==
    [k \in DOMAIN dict \cup {key} |-> IF k = key THEN value ELSE dict[k]]

\* variant: the kind is listed whether or not any data came back
export_kind_listed_always(bundle, kind, data) ==
    LET listed == Put(bundle, "data_types", Append(bundle["data_types"], kind)) IN
    IF data # {} THEN Put(listed, kind, data) ELSE listed

\* One of the six blocks of export_user_data: `if data:` stores the data and
\* lists the kind, and an empty result stores and lists nothing.
export_kind(bundle, kind, data) ==
    IF data # {}
    THEN Put(Put(bundle, kind, data), "data_types", Append(bundle["data_types"], kind))
    ELSE bundle

\* the blocks from the i-th on, in the order of the source
RECURSIVE export_from(_, _, _, _)
export_from(i, bundle, user_id, o) ==
    IF i > Len(export_kinds) THEN bundle
    ELSE LET kind == export_kinds[i] IN
         export_from(i + 1, export_kind(bundle, kind, export_fetch(kind, user_id, o[kind])),
                     user_id, o)

\* GDPRDataManager.export_user_data; the value of time.time() is not modelled
export_user_data(user_id, o) ==
    export_from(1, [user_id |-> user_id, export_timestamp |-> "time", data_types |-> <<>>],
                user_id, o)

ExportAuditRecord(user_id) ==
    [action |-> "data_export", user |-> user_id, status |-> "success"]

\* variant: the audit record of the export is stored as a row of audit_logs
export_data_route_audit_row(user_id, o) ==
    /\ pc = "idle"
    /\ Len(audit) < MaxAudit
    /\ nreq' = nreq + 1
    /\ req' = [route |-> "export", user |-> user_id, confirm |-> FALSE,
               outcomes |-> o,
               prev |-> [route |-> req.route, user |-> req.user, confirm |-> req.confirm]]
    /\ export_data' = export_user_data(user_id, o)
    /\ \/ /\ audit' = Append(audit, ExportAuditRecord(user_id))
          /\ rows' = [rows EXCEPT !["audit_logs"] = @ \cup {[id |-> nreq + 1, owner |-> user_id]}]
          /\ response' = [code |-> 200, status |-> "",
                          deleted_data_types |-> <<>>,
                          data_types |-> export_data'["data_types"]]
          /\ faults' = faults
       \/ /\ faults < MaxFaults
          /\ faults' = faults + 1
          /\ audit' = audit
          /\ rows' = rows
          /\ response' = [NoResponse EXCEPT !.code = 500]
    /\ UNCHANGED <<postgres, files, executed, pc, res, idx, steps, swept, next_id>>
    /\ UNCHANGED opsVars

\* The whole handler: the bundle, then audit_logger.log_action, then the
\* response; when log_action raises the except clause answers 500.  The
\* audit logger is an external sink (audit), not a table of this module.
\* o gives what the database does in each of the six helpers.
export_data_route(user_id, o) ==
    /\ pc = "idle"
    /\ Len(audit) < MaxAudit
    /\ nreq' = nreq + 1
    /\ req' = [route |-> "export", user |-> user_id, confirm |-> FALSE,
               outcomes |-> o,
               prev |-> [route |-> req.route, user |-> req.user, confirm |-> req.confirm]]
    /\ export_data' = export_user_data(user_id, o)
    /\ \/ /\ audit' = Append(audit, ExportAuditRecord(user_id))
          /\ response' = [code |-> 200, status |-> "",
                          deleted_data_types |-> <<>>,
                          data_types |-> export_data'["data_types"]]
          /\ faults' = faults
       \/ /\ faults < MaxFaults
          /\ faults' = faults + 1
          /\ audit' = audit
          /\ response' = [NoResponse EXCEPT !.code = 500]
    /\ UNCHANGED <<postgres, files, rows, executed, pc, res, idx, steps, swept, next_id>>
    /\ UNCHANGED opsVars

\* the kinds whose helper meets a database failure
Failing(o) == {k \in ExportKinds : o[k] # "ok"}

\* all six helpers succeed, or the helpers of any set of kinds fail alike
ExportOutcomes ==
    {[k \in ExportKinds |-> IF k \in F THEN how ELSE "ok"] :
        F \in SUBSET ExportKinds, how \in FetchChoices}

\* Before the first export request: rows in the tables the export reads (the
\* table script among them) and in scripts, which the sweep deletes from,
\* and files in one segment.
ExportSeedItems ==
    {<<"row", t, u>> : t \in {export_table(k) : k \in ExportKinds \ {"user_profile"}}
                              \cup {"scripts"},
                       u \in Owners}
        \cup {<<"file", "uploads", f>> : f \in FileNames}

InitExport == InitSeededWith(ExportSeedItems, MaxSeed)

\* one export request, with any set of helpers failing
NextExport ==
    /\ nreq = 0
    /\ \E u \in Owners, o \in ExportOutcomes : export_data_route(u, o)

SpecExport == InitExport /\ [][NextExport]_vars

AllOk == [k \in ExportKinds |-> "ok"]

InitErasure == InitSeededWith(ExportSeedItems, MaxExportSeed)

\* The export and deletion requests of one user, in any order; the helpers
\* of the exports meet no database failure.
NextErasure ==
    \/ \E u \in Owners : (nreq = 0 \/ req.user = u) /\ export_data_route(u, AllOk)
    \/ \E u \in Owners : (nreq = 0 \/ req.user = u) /\ delete_data_route(u, TRUE)
    \/ delete_user_files_segment
    \/ delete_table_step
    \/ delete_profile_step
    \/ log_deletion
    \/ respond_deletion
    \/ deletion_failed

SpecErasure == InitErasure /\ [][NextErasure]_vars

----------------------------------------------------------------------------
(* GET /gdpr/data-summary *)

tables_to_check == << <<"content", "uploader_id">>,
                      <<"feedback", "user_id">>,
                      <<"scripts", "user_id">>,
                      <<"analytics", "user_id">>,
                      <<"audit_logs", "user_id">> >>
CheckedTables == {tables_to_check[i][1] : i \in 1..Len(tables_to_check)}

\* the segments whose files the summary counts
summary_segments == <<"uploads", "scripts", "storyboards">>
SummarySegments == SeqToSet(summary_segments)

\* an entry of the summary: a count, or the string "unknown"
Known(n) == [entry |-> "count", count |-> n]
Unknown == [entry |-> "unknown", count |-> 0]

\* variant: a failing count is logged and leaves the entry as it is
table_entry_unmarked(summary, table, d) ==
    IF d.counted
    THEN [summary EXCEPT !.data_summary = Put(@, table, Known(d.count)),
                         !.total_data_points = @ + d.count]
    ELSE summary

\* The body of the table loop after the count d: the entry and the total are
\* set when the count was fetched, and the except clause overwrites the
\* entry with "unknown" (a close that raises comes after both assignments).
\* Without a PostgreSQL DATABASE_URL nothing is counted and nothing is set.
table_entry(summary, table, d) ==
    LET counted == IF d.counted
                   THEN [summary EXCEPT !.data_summary = Put(@, table, Known(d.count)),
                                        !.total_data_points = @ + d.count]
                   ELSE summary
    IN
    IF d.raised THEN [counted EXCEPT !.data_summary = Put(@, table, Unknown)]
    ELSE counted

RECURSIVE count_tables(_, _, _, _)
count_tables(i, summary, user_id, o) ==
    IF i > Len(tables_to_check) THEN summary
    ELSE LET table == tables_to_check[i][1]
             user_column == tables_to_check[i][2]
             d == count_user_records(table, user_column, user_id, o[table])
         IN count_tables(i + 1, table_entry(summary, table, d), user_id, o)

\* file_counts[segment]: the files of the listing whose name contains user_id
file_count(segment, user_id, l) ==
    IF l = "raise" THEN Unknown
    ELSE Known(Len(SelectSeq(list_files(segment), LAMBDA f : Contains(f, user_id))))

\* what the database does for each table, and the storage for each listing
SummaryOutcomes ==
    {[t \in CheckedTables |-> IF t \in F THEN how ELSE "ok"] :
        F \in SUBSET CheckedTables, how \in CountChoices}
ListingOutcomes == [SummarySegments -> CallOutcomes]

\* The whole handler.  Every call that can raise is inside the try of its
\* loop body, so the outer except clause (answer 500) is never entered.
get_user_data_summary(user_id, o, l) ==
    /\ pc = "idle"
    /\ nreq < MaxRequests
    /\ nreq' = nreq + 1
    /\ req' = [route |-> "summary", user |-> user_id, confirm |-> FALSE,
               outcomes |-> o, listings |-> l]
    /\ LET summary == count_tables(1, [data_summary |-> <<>>, total_data_points |-> 0],
                                   user_id, o)
       IN
       /\ response' = [code |-> 200, status |-> "", deleted_data_types |-> <<>>,
                       data_summary |-> summary.data_summary,
                       files |-> [s \in SummarySegments |-> file_count(s, user_id, l[s])],
                       total_data_points |-> summary.total_data_points]
       /\ executed' = UNION {count_user_records(tables_to_check[i][1], tables_to_check[i][2],
                                                user_id, o[tables_to_check[i][1]]).executed :
                                 i \in 1..Len(tables_to_check)}
    /\ UNCHANGED <<postgres, files, rows, audit, pc, res, idx, steps, faults, swept,
                   next_id, export_data>>
    /\ UNCHANGED opsVars

\* one summary request
NextSummary ==
    /\ nreq = 0
    /\ \E u \in Owners, o \in SummaryOutcomes, l \in ListingOutcomes :
           get_user_data_summary(u, o, l)

SpecSummary == InitSeeded /\ [][NextSummary]_vars

----------------------------------------------------------------------------
(* Feedback submissions and the GDPR requests of registered users, in any  *)
(* order                                                                   *)

\* no database or storage failure in an export or a summary
CountsOk == [t \in CheckedTables |-> "ok"]
ListingsOk == [s \in SummarySegments |-> "ok"]

NextAnonymous ==
    \/ \E r \in RatingInputs : feedback_minimal("c1", r, "")
    \/ /\ nreq < MaxRequests
       /\ \E u \in Owners : export_data_route(u, AllOk)
    \/ \E u \in Owners : get_user_data_summary(u, CountsOk, ListingsOk)
    \/ \E u \in Owners : delete_data_route(u, TRUE)
    \/ delete_user_files_segment
    \/ delete_table_step
    \/ delete_profile_step
    \/ log_deletion
    \/ respond_deletion
    \/ deletion_failed

SpecAnonymous == InitFeedback /\ [][NextAnonymous]_vars
----------------------------------------------------------------------------
(* The migration scripts (migrations/versions).  The schema is a set of     *)
(* objects: <<"table", t>>, <<"column", t, c>>, <<"index", name, t>>,       *)
(* <<"notnull", t, c>> and <<"constraint", t, name, k>>, where k > 0 is the *)
(* number the database appends to the default name of an unnamed           *)
(* constraint when that name is taken.  Every statement takes effect on    *)
(* its own; primary keys and the constraints declared inside create_table  *)
(* are left out.                                                           *)

HasTable(s, t) == <<"table", t>> \in s
Columns(s, t) == {x[3] : x \in {y \in s : y[1] = "column" /\ y[2] = t}}
HasIndex(s, name) == \E x \in s : x[1] = "index" /\ x[2] = name
\* the objects that go with a table when it is dropped
OfTable(s, t) ==
    {x \in s : \/ x[1] \in {"table", "column", "notnull", "constraint"} /\ x[2] = t
               \/ x[1] = "index" /\ x[3] = t}

Done(s) == [schema |-> s, raised |-> FALSE]
Raise(s) == [schema |-> s, raised |-> TRUE]

\* op.create_table(t, columns..., indexes...)
create_table(s, t, columns, indexes) ==
    IF HasTable(s, t) THEN Raise(s)
    ELSE Done(s \cup {<<"table", t>>} \cup {<<"column", t, c>> : c \in columns}
                \cup {<<"index", i, t>> : i \in indexes})

\* op.add_column(t, Column(c))
add_column(s, t, c) ==
    IF ~HasTable(s, t) \/ c \in Columns(s, t) THEN Raise(s)
    ELSE Done(s \cup {<<"column", t, c>>})

\* op.drop_column(t, c)
drop_column(s, t, c) ==
    IF c \notin Columns(s, t) THEN Raise(s)
    ELSE Done(s \ {<<"column", t, c>>, <<"notnull", t, c>>})

\* op.alter_column(t, c, nullable=False)
alter_column(s, t, c) ==
    IF c \notin Columns(s, t) THEN Raise(s)
    ELSE Done(s \cup {<<"notnull", t, c>>})

\* op.create_index(name, t, [c])
create_index(s, name, t, c) ==
    IF HasIndex(s, name) \/ c \notin Columns(s, t) THEN Raise(s)
    ELSE Done(s \cup {<<"index", name, t>>})

\* op.drop_index(name, table_name=t)
drop_index(s, name, t) ==
    IF <<"index", name, t>> \notin s THEN Raise(s)
    ELSE Done(s \ {<<"index", name, t>>})

\* op.drop_table(t)
drop_table(s, t) ==
    IF ~HasTable(s, t) THEN Raise(s)
    ELSE Done(s \ OfTable(s, t))

\* op.create_unique_constraint(name, t, [c])
create_unique_constraint(s, name, t, c) ==
    IF <<"constraint", t, name, 0>> \in s \/ c \notin Columns(s, t) THEN Raise(s)
    ELSE Done(s \cup {<<"constraint", t, name, 0>>})

\* op.drop_constraint(name, t)
drop_constraint(s, name, t) ==
    IF <<"constraint", t, name, 0>> \notin s THEN Raise(s)
    ELSE Done(s \ {<<"constraint", t, name, 0>>})

\* op.create_foreign_key(None, t, referent, [c], [rc]): the database names
\* the constraint default_name, with the first free number appended when
\* that name is taken, so a second constraint on the same column is added
\* beside the first
create_foreign_key(s, default_name, t, referent, c, rc) ==
    IF c \notin Columns(s, t) \/ rc \notin Columns(s, referent) THEN Raise(s)
    ELSE LET taken == {x[4] : x \in {y \in s : y[1] = "constraint" /\ y[2] = t
                                                 /\ y[3] = default_name}}
             k == CHOOSE n \in 0..Cardinality(taken) : n \notin taken /\ 0..(n - 1) \subseteq taken
         IN Done(s \cup {<<"constraint", t, default_name, k>>})

\* r, then f unless r has raised: two statements in sequence
Then(r, f(_)) == IF r.raised THEN r ELSE f(r.schema)

\* try: <statements> except Exception: pass
Try(r) == r.schema

\* 001_create_initial_tables.upgrade: three create_table calls, unguarded
upgrade_001(s) ==
    Then(Then(create_table(s, "user",
                  {"user_id", "username", "password_hash", "email", "created_at"}, {}),
              LAMBDA a : create_table(a, "content",
                  {"content_id", "uploader_id", "title", "description", "file_path",
                   "content_type", "uploaded_at", "authenticity_score", "current_tags"}, {})),
         LAMBDA b : create_table(b, "feedback",
                  {"id", "content_id", "user_id", "event_type", "rating", "comment",
                   "sentiment", "engagement_score", "timestamp"}, {}))

\* add_column(t, c) for each c of cs in order, as the statements of one block
RECURSIVE add_columns(_, _, _)
add_columns(s, t, cs) ==
    IF cs = <<>> THEN Done(s)
    ELSE Then(add_column(s, t, Head(cs)), LAMBDA x : add_columns(x, t, Tail(cs)))

\* 003_add_advanced_features.upgrade: six blocks, each try/except-pass
upgrade_003(s) ==
    LET s1 == Try(add_columns(s, "user",
                      <<"email_verified", "verification_token", "role", "last_login">>))
        s2 == Try(add_columns(s1, "content",
                      <<"duration_ms", "views", "likes", "shares", "status">>))
        s3 == Try(add_columns(s2, "feedback", <<"watch_time_ms", "reward", "ip_address">>))
        s4 == Try(create_table(s3, "invitations",
                      {"id", "email", "inviter_id", "invitation_token", "created_at",
                       "expires_at", "used", "used_at"}, {}))
        s5 == Try(create_table(s4, "analytics",
                      {"id", "event_type", "user_id", "content_id", "metadata",
                       "timestamp", "ip_address"}, {}))
        s6 == Try(create_table(s5, "system_logs",
                      {"id", "level", "message", "module", "timestamp", "user_id"}, {}))
    IN Done(s6)

\* 004_add_script_table.upgrade: three blocks, each try/except-pass
upgrade_004(s) ==
    LET s1 == Try(IF HasTable(s, "content") /\ HasTable(s, "user")
                  THEN create_table(s, "script",
                           {"script_id", "content_id", "user_id", "title", "script_content",
                            "script_type", "file_path", "created_at", "used_for_generation",
                            "version", "script_metadata"},
                           {"ix_script_content_id", "ix_script_user_id",
                            "ix_script_created_at"})
                  ELSE Raise(s))
        s2 == Try(Then(Then(Then(Then(
                      create_index(s1, "ix_content_uploader_id", "content", "uploader_id"),
                      LAMBDA a : create_index(a, "ix_content_uploaded_at", "content", "uploaded_at")),
                      LAMBDA b : create_index(b, "ix_feedback_content_id", "feedback", "content_id")),
                      LAMBDA c : create_index(c, "ix_feedback_user_id", "feedback", "user_id")),
                      LAMBDA d : create_index(d, "ix_feedback_timestamp", "feedback", "timestamp")))
        s3 == Try(create_table(s2, "audit_logs",
                      {"id", "user_id", "action", "resource_type", "resource_id", "timestamp",
                       "ip_address", "user_agent", "request_id", "details", "status"},
                      {"ix_audit_logs_user_id", "ix_audit_logs_action",
                       "ix_audit_logs_resource_type", "ix_audit_logs_timestamp",
                       "ix_audit_logs_request_id"}))
    IN Done(s3)

\* the feedback part of postgres_only_fixed.upgrade (lines 91-143)
modify_feedback(s) ==
    LET feedback_columns == Columns(s, "feedback")
        f1 == IF "event_type" \notin feedback_columns
              THEN Try(add_column(s, "feedback", "event_type")) ELSE s
        f2 == IF "watch_time_ms" \notin feedback_columns
              THEN Try(add_column(f1, "feedback", "watch_time_ms")) ELSE f1
        f3 == IF "reward" \notin feedback_columns
              THEN Try(add_column(f2, "feedback", "reward")) ELSE f2
        f4 == IF "timestamp" \notin feedback_columns
              THEN Try(add_column(f3, "feedback", "timestamp")) ELSE f3
        f5 == Try(drop_index(f4, "ix_feedback_content_id", "feedback"))
        f6 == Try(drop_constraint(f5, "feedback_user_id_fkey", "feedback"))
        f7 == Try(create_foreign_key(f6, "feedback_user_id_fkey", "feedback", "user",
                                     "user_id", "user_id"))
        f8 == Try(create_foreign_key(f7, "feedback_content_id_fkey", "feedback", "content",
                                     "content_id", "content_id"))
    IN IF "created_at" \in feedback_columns
       THEN Try(drop_column(f8, "feedback", "created_at")) ELSE f8

\* postgres_only_fixed.upgrade.  inspector.get_columns('user') raises when
\* there is no user table, outside every try; the second reading of the
\* user columns (line 169) comes from the same inspector as the first.
upgrade_postgres_only_fixed(s) ==
    IF ~HasTable(s, "user") THEN Raise(s)
    ELSE
    LET user_columns == Columns(s, "user")
        s1 == IF "user_id" \notin user_columns
              THEN Try(add_column(s, "user", "user_id")) ELSE s
        s2 == IF "password_hash" \notin user_columns
              THEN Try(add_column(s1, "user", "password_hash")) ELSE s1
        s3 == Try(alter_column(s2, "user", "username"))
        s4 == Try(drop_index(s3, "ix_user_sub", "user"))
        s5 == Try(create_index(s4, "ix_user_username", "user", "username"))
        s6 == Try(create_unique_constraint(s5, "uq_user_user_id", "user", "user_id"))
        existing_tables == {x[2] : x \in {y \in s6 : y[1] = "table"}}
        s7 == IF "content" \notin existing_tables
              THEN Try(create_table(s6, "content",
                       {"content_id", "uploader_id", "title", "description", "file_path",
                        "content_type", "duration_ms", "uploaded_at", "authenticity_score",
                        "current_tags", "views", "likes", "shares"}, {}))
              ELSE s6
        s8 == IF "feedback" \in existing_tables THEN modify_feedback(s7) ELSE s7
        s9 == IF "videometadata" \in existing_tables
              THEN Try(drop_table(Try(drop_index(s8, "ix_videometadata_content_id",
                                                 "videometadata")), "videometadata"))
              ELSE s8
        s10 == IF "script" \in existing_tables
               THEN Try(drop_table(Try(drop_index(s9, "ix_script_content_id", "script")),
                                   "script"))
               ELSE s9
        s11 == IF "sub" \in user_columns THEN Try(drop_column(s10, "user", "sub")) ELSE s10
        s12 == IF "id" \in user_columns THEN Try(drop_column(s11, "user", "id")) ELSE s11
    IN Done(s12)

\* 33ae1ae5b5a6_merge_conflicting_heads.upgrade: pass
upgrade_33ae1ae5b5a6(s) == Done(s)

revisions == <<"001", "003", "004", "postgres_only_fixed", "33ae1ae5b5a6">>
Revisions == SeqToSet(revisions)

\* variant: 004 revises a revision 002, of which there is no script
down_revision_of_missing(revision) ==
    CASE revision = "001" -> {}
      [] revision = "003" -> {"001"}
      [] revision = "004" -> {"002"}
      [] revision = "postgres_only_fixed" -> {"001"}
      [] revision = "33ae1ae5b5a6" -> {"004", "postgres_only_fixed"}

\* down_revision of each script, as a set (None is the empty set)
down_revision(revision) ==
    CASE revision = "001" -> {}
      [] revision = "003" -> {"001"}
      [] revision = "004" -> {"003"}
      [] revision = "postgres_only_fixed" -> {"001"}
      [] revision = "33ae1ae5b5a6" -> {"004", "postgres_only_fixed"}

upgrade(revision, s) ==
    CASE revision = "001" -> upgrade_001(s)
      [] revision = "003" -> upgrade_003(s)
      [] revision = "004" -> upgrade_004(s)
      [] revision = "postgres_only_fixed" -> upgrade_postgres_only_fixed(s)
      [] revision = "33ae1ae5b5a6" -> upgrade_33ae1ae5b5a6(s)

\* the revisions whose upgrade has run to its end
Applied == {upgrades[i].revision : i \in {j \in 1..Len(upgrades) : ~upgrades[j].raised}}

\* One run of a script's upgrade().  A script runs only after the scripts it
\* revises, and may run again.
run_upgrade(revision) ==
    /\ Len(upgrades) < MaxUpgrades
    /\ down_revision(revision) \subseteq Applied
    /\ LET r == upgrade(revision, schema) IN
       /\ schema' = r.schema
       /\ upgrades' = Append(upgrades, [revision |-> revision, raised |-> r.raised,
                                        changed |-> r.schema # schema])
    /\ UNCHANGED <<postgres, files, rows, executed, audit, pc, req, res, idx, steps,
                   response, faults, nreq, swept, next_id, export_data>>
    /\ UNCHANGED <<validator, checker, run, conc>>

\* no request is served meanwhile
InitIdle == InitSeededWith({}, 0)

NextMigrations == \E revision \in Revisions : run_upgrade(revision)

SpecMigrations == InitIdle /\ [][NextMigrations]_vars
----------------------------------------------------------------------------
(* The operational scripts: DeploymentValidator (deployment_validation.py) *)
(* and ProductionReadinessChecker (pre_production_checklist.py)            *)

\* two of the probes of each script
TestNames == {"Deployment Ready", "Health Check"}
CheckNames == {<<"Database", "Database URL configured">>, <<"API", "Health check">>}

PassFail(status) == IF status THEN "PASS" ELSE "FAIL"

\* variant: the flag is set to the status of the result just recorded
add_validation_result_last_wins(test_name, status) ==
    /\ Len(validator.validation_results) < MaxResults
    /\ validator' =
           [validation_results |->
                Append(validator.validation_results,
                       [test_name |-> test_name, status |-> PassFail(status),
                        passed |-> status]),
            deployment_healthy |-> status]
    /\ UNCHANGED <<postgres, files, rows, executed, audit, pc, req, res, idx, steps,
                   response, faults, nreq, swept, next_id, export_data>>
    /\ UNCHANGED <<schema, upgrades, checker, run, conc>>

\* DeploymentValidator.add_validation_result (details, response_time_ms and
\* the timestamp of the result are left out)
add_validation_result(test_name, status) ==
    /\ Len(validator.validation_results) < MaxResults
    /\ validator' =
           [validation_results |->
                Append(validator.validation_results,
                       [test_name |-> test_name, status |-> PassFail(status),
                        passed |-> status]),
            deployment_healthy |-> IF ~status THEN FALSE ELSE validator.deployment_healthy]
    /\ UNCHANGED <<postgres, files, rows, executed, audit, pc, req, res, idx, steps,
                   response, faults, nreq, swept, next_id, export_data>>
    /\ UNCHANGED <<schema, upgrades, checker, run, conc>>

\* ProductionReadinessChecker.add_check_result (details are left out)
add_check_result(category, check_name, status) ==
    /\ Len(checker.checks) < MaxResults
    /\ checker' =
           [checks |->
                Append(checker.checks,
                       [category |-> category, check_name |-> check_name,
                        status |-> PassFail(status), passed |-> status]),
            overall_status |-> IF ~status THEN FALSE ELSE checker.overall_status]
    /\ UNCHANGED <<postgres, files, rows, executed, audit, pc, req, res, idx, steps,
                   response, faults, nreq, swept, next_id, export_data>>
    /\ UNCHANGED <<schema, upgrades, validator, run, conc>>

\* the probes of the two scripts, each recording a result of either status
NextCheckers ==
    \/ \E n \in TestNames, status \in BOOLEAN : add_validation_result(n, status)
    \/ \E c \in CheckNames, status \in BOOLEAN : add_check_result(c[1], c[2], status)

SpecCheckers == InitIdle /\ [][NextCheckers]_vars
----------------------------------------------------------------------------
(* DeploymentValidator.run_full_validation and wait_for_deployment, and    *)
(* ProductionReadinessChecker.check_authentication_system.  The clock is   *)
(* time.time() in seconds; every HTTP probe is answered with status 200,   *)
(* with another status, or raises.                                         *)

\* time.sleep(10)
polling_interval == 10
\* the largest --timeout given on the command line
MaxTimeout == 12
\* the clock is not followed further than this
MaxClock == MaxTimeout + polling_interval
Timeouts == {0, MaxTimeout}

ProbeOutcomes == {"200", "status", "raise"}
\* a performance test may also be answered with 200 too late
TimedOutcomes == ProbeOutcomes \cup {"slow"}
ProbeCost(o) == IF o = "200" THEN 0 ELSE 1

\* the variables no operational script touches
requestVars == <<postgres, files, rows, executed, audit, pc, req, res, idx, steps,
                 response, nreq, swept, next_id, export_data, conc>>

\* self.add_validation_result(test_name, status, ...) applied to the object v
recorded(v, test_name, status) ==
    [validation_results |->
         Append(v.validation_results,
                [test_name |-> test_name, status |-> PassFail(status), passed |-> status]),
     deployment_healthy |-> IF ~status THEN FALSE ELSE v.deployment_healthy]

\* main() constructs the validator with --timeout and calls the function;
\* start_time = time.time()
start(caller, timeout) ==
    /\ run.pc = "init"
    /\ run' = [run EXCEPT !.pc = "guard", !.caller = caller, !.timeout = timeout,
                          !.start_time = run.now]
    /\ UNCHANGED <<requestVars, faults, schema, upgrades, validator, checker>>

\* wait_for_deployment called on its own
wait_for_deployment(timeout) == start("wait_for_deployment", timeout)

\* run_full_validation, whose first statement calls wait_for_deployment
run_full_validation(timeout) == start("run_full_validation", timeout)

\* where wait_for_deployment returns to
after_wait(ready) ==
    IF run.caller = "run_full_validation" /\ ready THEN "core" ELSE "returned"

\* `while time.time() - start_time < self.timeout`, and the statements after
\* the loop; run_full_validation returns False when the wait does
wait_loop_condition ==
    /\ run.pc = "guard"
    /\ IF run.now - run.start_time < run.timeout
       THEN /\ run' = [run EXCEPT !.pc = "probe"]
            /\ validator' = validator
       ELSE /\ validator' = recorded(validator, "Deployment Ready", FALSE)
            /\ run' = [run EXCEPT !.pc = after_wait(FALSE), !.ready = "False",
                           !.result = IF run.caller = "run_full_validation"
                                      THEN "False" ELSE "none"]
    /\ UNCHANGED <<requestVars, faults, schema, upgrades, checker>>

\* variant: the loop goes on after a probe answered with 200
health_probe_polls_on(o) ==
    /\ run.pc = "probe"
    /\ CASE o = "200" ->
              /\ validator' = recorded(validator, "Deployment Ready", TRUE)
              /\ run' = [run EXCEPT !.pc = "guard", !.last = o, !.slept = FALSE,
                                    !.sent = @ \cup {"Deployment Ready"}]
         [] o = "status" ->
              /\ validator' = validator
              /\ run' = [run EXCEPT !.pc = "guard", !.last = o, !.slept = FALSE,
                                    !.sent = @ \cup {"Deployment Ready"}]
         [] o = "raise" ->
              /\ validator' = validator
              /\ run' = [run EXCEPT !.pc = "sleeping", !.last = o, !.slept = FALSE,
                                    !.wake = run.now + polling_interval,
                                    !.sent = @ \cup {"Deployment Ready"}]
    /\ UNCHANGED <<requestVars, faults, schema, upgrades, checker>>

\* The body of the loop: requests.get(.../health).  Status 200 records the
\* result and returns True; another status goes back to the loop condition;
\* an exception is caught and followed by time.sleep(10).
health_probe(o) ==
    /\ run.pc = "probe"
    /\ CASE o = "200" ->
              /\ validator' = recorded(validator, "Deployment Ready", TRUE)
              /\ run' = [run EXCEPT !.pc = after_wait(TRUE), !.ready = "True",
                                    !.last = o, !.slept = FALSE,
                                    !.sent = @ \cup {"Deployment Ready"}]
         [] o = "status" ->
              /\ validator' = validator
              /\ run' = [run EXCEPT !.pc = "guard", !.last = o, !.slept = FALSE,
                                    !.sent = @ \cup {"Deployment Ready"}]
         [] o = "raise" ->
              /\ validator' = validator
              /\ run' = [run EXCEPT !.pc = "sleeping", !.last = o, !.slept = FALSE,
                                    !.wake = run.now + polling_interval,
                                    !.sent = @ \cup {"Deployment Ready"}]
    /\ UNCHANGED <<requestVars, faults, schema, upgrades, checker>>

\* time.sleep(10) returns
wake_up ==
    /\ run.pc = "sleeping"
    /\ run.now >= run.wake
    /\ run' = [run EXCEPT !.pc = "guard", !.slept = TRUE]
    /\ UNCHANGED <<requestVars, faults, schema, upgrades, validator, checker>>

\* one second passes while the script waits
Tick ==
    /\ run.pc \in {"guard", "probe", "sleeping"}
    /\ run.now < (IF run.pc = "sleeping" THEN run.wake ELSE MaxClock)
    /\ run' = [run EXCEPT !.now = @ + 1]
    /\ UNCHANGED <<requestVars, faults, schema, upgrades, validator, checker>>

core_endpoints == <<"Health Check", "Detailed Health", "API Documentation",
                    "OpenAPI Schema", "Metrics Info">>
monitoring_endpoints == <<"Performance Metrics", "Observability Health",
                          "Monitoring Status">>
performance_tests == <<"Health Check Performance", "Metrics Performance",
                       "Content List Performance">>

\* a loop over endpoints whose body catches its own exception: each endpoint
\* records a result under its own description
RECURSIVE probe_each(_, _, _)
probe_each(v, names, o) ==
    IF names = <<>> THEN v
    ELSE probe_each(recorded(v, Head(names), o[Head(names)] = "200"), Tail(names), o)

\* the answers of o that are not a timely 200
Failures(o) == Cardinality({n \in DOMAIN o : o[n] # "200"})

\* one of the three functions that loop over a list of endpoints
validate_endpoints(at, names, outcomes, next) ==
    /\ run.pc = at
    /\ \E o \in [SeqToSet(names) -> outcomes] :
        /\ Failures(o) <= MaxFaults - faults
        /\ faults' = faults + Failures(o)
        /\ validator' = probe_each(validator, names, o)
    /\ run' = [run EXCEPT !.pc = next, !.sent = @ \cup SeqToSet(names),
                          !.result = IF next = "returned"
                                     THEN (IF validator'.deployment_healthy
                                           THEN "True" ELSE "False")
                                     ELSE @]
    /\ UNCHANGED <<requestVars, schema, upgrades, checker>>

validate_core_endpoints ==
    validate_endpoints("core", core_endpoints, ProbeOutcomes, "auth")

\* validate_authentication_flow: demo is the answer of /demo-login,
\* credentials whether its body carries username and password, login the
\* answer of /users/login
validate_authentication_flow(demo, credentials, login) ==
    /\ run.pc = "auth"
    /\ demo # "200" => credentials /\ login = "200"
    /\ ~credentials => login = "200"
    /\ LET cost == ProbeCost(demo) + ProbeCost(login) + (IF credentials THEN 0 ELSE 1)
           v1 == recorded(validator, "Demo Login Available", TRUE)
       IN
       /\ cost <= MaxFaults - faults
       /\ faults' = faults + cost
       /\ validator' =
            CASE demo = "raise" -> recorded(validator, "Authentication System", FALSE)
              [] demo = "status" -> recorded(validator, "Demo Login Available", FALSE)
              [] demo = "200" /\ ~credentials -> v1
              [] OTHER -> recorded(v1, "Demo Login Flow", login = "200")
    /\ run' = [run EXCEPT !.pc = "upload",
                   !.sent = @ \cup {"Demo Login Available"}
                              \cup (IF demo = "200" /\ credentials
                                    THEN {"Demo Login Flow"} ELSE {})]
    /\ UNCHANGED <<requestVars, schema, upgrades, checker>>

\* validate_upload_system: both requests are in one try block
validate_upload_system(cdn, contents) ==
    /\ run.pc = "upload"
    /\ cdn = "raise" => contents = "200"
    /\ LET cost == ProbeCost(cdn) + ProbeCost(contents)
           v1 == recorded(validator, "CDN Upload URL Generation", cdn = "200")
       IN
       /\ cost <= MaxFaults - faults
       /\ faults' = faults + cost
       /\ validator' =
            CASE cdn = "raise" -> recorded(validator, "Upload System", FALSE)
              [] contents = "raise" -> recorded(v1, "Upload System", FALSE)
              [] OTHER -> recorded(v1, "Content Listing", contents = "200")
    /\ run' = [run EXCEPT !.pc = "monitoring",
                   !.sent = @ \cup {"CDN Upload URL Generation"}
                              \cup (IF cdn # "raise" THEN {"Content Listing"} ELSE {})]
    /\ UNCHANGED <<requestVars, schema, upgrades, checker>>

validate_monitoring_system ==
    validate_endpoints("monitoring", monitoring_endpoints, ProbeOutcomes, "gdpr")

validate_gdpr_compliance(o) ==
    /\ run.pc = "gdpr"
    /\ ProbeCost(o) <= MaxFaults - faults
    /\ faults' = faults + ProbeCost(o)
    /\ validator' = IF o = "raise"
                    THEN recorded(validator, "GDPR Compliance", FALSE)
                    ELSE recorded(validator, "GDPR Privacy Policy", o = "200")
    /\ run' = [run EXCEPT !.pc = "performance", !.sent = @ \cup {"GDPR Privacy Policy"}]
    /\ UNCHANGED <<requestVars, schema, upgrades, checker>>

\* validate_performance_benchmarks, then `return self.deployment_healthy`
validate_performance_benchmarks ==
    validate_endpoints("performance", performance_tests, TimedOutcomes, "returned")

\* the three probes of check_authentication_system, with the name each
\* records when it is answered
auth_checks == <<"Auth debug endpoint", "Demo login available", "Supabase integration">>

auth_check_name(i, o) ==
    IF i = 3 /\ o # "200" THEN "Supabase auth health" ELSE auth_checks[i]

\* self.add_check_result(category, check_name, status) applied to the object c
check_recorded(c, category, check_name, status) ==
    [checks |->
         Append(c.checks, [category |-> category, check_name |-> check_name,
                           status |-> PassFail(status), passed |-> status]),
     overall_status |-> IF ~status THEN FALSE ELSE c.overall_status]

\* the body of the try block of check_authentication_system from probe i on
RECURSIVE auth_probes(_, _, _)
auth_probes(c, i, o) ==
    IF i > Len(auth_checks) THEN [checker |-> c, requested |-> {}]
    ELSE IF o[i] = "raise"
    THEN [checker |-> check_recorded(c, "Auth", "Authentication system", FALSE),
          requested |-> {auth_checks[i]}]
    ELSE LET rest == auth_probes(check_recorded(c, "Auth", auth_check_name(i, o[i]),
                                                o[i] = "200"), i + 1, o)
         IN [rest EXCEPT !.requested = @ \cup {auth_checks[i]}]

\* check_authentication_system as run_all_checks calls it
check_authentication_system(o) ==
    /\ run.pc = "init"
    /\ run.checked = {}
    /\ \A i \in 1..Len(auth_checks) :
           (\E j \in 1..(i - 1) : o[j] = "raise") => o[i] = "200"
    /\ LET cost == Cardinality({i \in DOMAIN o : o[i] # "200"})
           r == auth_probes(checker, 1, o)
       IN
       /\ cost <= MaxFaults - faults
       /\ faults' = faults + cost
       /\ checker' = r.checker
       /\ run' = [run EXCEPT !.checked = r.requested]
    /\ UNCHANGED <<requestVars, schema, upgrades, validator>>

\* wait_for_deployment called on its own, while the clock advances
NextWait ==
    \/ \E timeout \in Timeouts : wait_for_deployment(timeout)
    \/ wait_loop_condition
    \/ \E o \in ProbeOutcomes : health_probe(o)
    \/ wake_up
    \/ Tick

SpecWait == InitIdle /\ [][NextWait]_vars

\* the script keeps running and the clock keeps advancing
SpecWaitFair == SpecWait /\ WF_vars(NextWait) /\ WF_vars(Tick)

\* a full run of the validator, and the authentication checks of the checklist
NextValidation ==
    \/ \E timeout \in Timeouts : run_full_validation(timeout)
    \/ wait_loop_condition
    \/ \E o \in ProbeOutcomes : health_probe(o)
    \/ wake_up
    \/ Tick
    \/ validate_core_endpoints
    \/ \E demo, login \in ProbeOutcomes, credentials \in BOOLEAN :
           validate_authentication_flow(demo, credentials, login)
    \/ \E cdn, contents \in ProbeOutcomes : validate_upload_system(cdn, contents)
    \/ validate_monitoring_system
    \/ \E o \in ProbeOutcomes : validate_gdpr_compliance(o)
    \/ validate_performance_benchmarks
    \/ \E o \in [1..Len(auth_checks) -> ProbeOutcomes] : check_authentication_system(o)

SpecValidation == InitIdle /\ [][NextValidation]_vars
----------------------------------------------------------------------------
(* Properties of the deletion sweep *)

\* delete_user_data has returned to the handler of a confirmed request
Returned == req.route = "delete" /\ req.confirm /\ pc \notin {"files", "tables", "profile"}

StepNames == [i \in 1..Len(steps) |-> steps[i].step]
FailedSteps == {steps[i].step : i \in {j \in 1..Len(steps) : steps[j].failed}}
RemovingSteps == {steps[i].step : i \in {j \in 1..Len(steps) : steps[j].removed > 0}}
HasRows(table, user_id) == \E r \in rows[table] : r.owner = user_id

\* C1: the status a sweep returns is one of completed, partially_completed
\* and failed, never in_progress: completed when no step failed,
\* partially_completed when something was deleted and some step failed,
\* failed when nothing was deleted.  A step counts as failed here when its
\* exception reaches delete_user_data (a table delete or the user-row
\* delete; failures inside the file sweep are the subject of C3), and when
\* no step failed and nothing was deleted, where the sentence names two
\* statuses, either is accepted.
C1_StatusIsThreeValued ==
    Returned =>
        LET failed == FailedSteps \ {"files"} IN
        /\ res.status \in {"completed", "partially_completed", "failed"}
        /\ (failed = {} /\ RemovingSteps # {}) => res.status = "completed"
        /\ (failed = {} /\ RemovingSteps = {}) => res.status \in {"completed", "failed"}
        /\ (failed # {} /\ RemovingSteps # {}) => res.status = "partially_completed"
        /\ (failed # {} /\ RemovingSteps = {}) => res.status = "failed"

C3_FailuresRecorded ==
    Returned => \A s \in FailedSteps : s \in SeqToSet(res.failed_deletions)

\* C4: a sweep calls all eight steps in order whatever failed before, and
\* then returns a result to the handler: while it runs the steps called are
\* a prefix of the eight, the handler's except clause is entered only after
\* all eight, and the result carries a final status.
C4_AllStepsAttempted ==
    /\ (req.route = "delete" /\ req.confirm) =>
           /\ Len(steps) <= Len(SweepSteps)
           /\ StepNames = SubSeq(SweepSteps, 1, Len(steps))
    /\ Returned =>
           /\ StepNames = SweepSteps
           /\ res.status \in {"completed", "partially_completed", "failed"}

C4_Witness ==
    /\ Returned
    /\ \E i \in 1..Len(steps) : steps[i].failed /\ i < Len(steps)
    /\ StepNames = SweepSteps

C7_ExactlyOneAuditRecord ==
    (req.route = "delete" /\ req.confirm /\ pc = "idle") =>
        /\ Len(audit) = req.audit0 + 1
        /\ audit[Len(audit)].action = "data_deletion"

\* C8: a deletion request with confirm_deletion = false is answered with 400
\* and changes nothing: no file, no row, no audit record, no sweep.
C8_UnconfirmedHasNoEffect ==
    [][(nreq' = nreq + 1 /\ req'.route = "delete" /\ ~req'.confirm) =>
           /\ response'.code = 400
           /\ pc' = "idle"
           /\ UNCHANGED <<files, rows, audit, executed, res, steps, swept>>]_vars

C8_Witness ==
    /\ req.route = "delete" /\ ~req.confirm
    /\ response.code = 400
    /\ nreq > 0

\* C15: when delete_user_data has returned and failed_deletions has no entry
\* for the files step, no file whose name contains the user id is left in
\* any of the four segments.
C15_NoUserFileLeft ==
    (Returned /\ "files" \notin SeqToSet(res.failed_deletions)) =>
        \A s \in Segments : \A f \in files[s] : ~Contains(f, req.user)

----------------------------------------------------------------------------
(* Properties of the statement-building operations *)

Unlisted(table, user_column) ==
    table \notin allowed_tables \/ user_column \notin allowed_columns

\* C6 as stated: a pair outside the allow-list is rejected with an error
\* and no statement is executed for it.
C6_UnlistedPairRaises ==
    (req.route = "call" /\ Unlisted(req.table, req.column)) =>
        /\ response.raised
        /\ executed = {}

\* C6 as amended: for a pair outside the allow-list no statement is executed
\* and nothing is deleted or counted; the call raises when DATABASE_URL names
\* a PostgreSQL database, and returns 0 without an error when it does not.
C6_UnlistedPairExecutesNothing ==
    (req.route = "call" /\ Unlisted(req.table, req.column)) =>
        /\ executed = {}
        /\ response.count = 0
        /\ response.raised = postgres
        /\ response.raised => response.error \in {"ValueError", "db"}

C6_Witness ==
    /\ req.route = "call" /\ req.fn = "delete_user_records"
    /\ req.table \notin allowed_tables
    /\ response.raised /\ response.error = "ValueError"

----------------------------------------------------------------------------
(* Properties of the feedback endpoint *)

\* C9: a feedback request whose rating is outside 1..5 is answered with
\* status 400 and writes no row.
C9_BadRatingIs400 ==
    [][(nreq' = nreq + 1 /\ req'.route = "feedback"
          /\ ~(1 <= req'.rating /\ req'.rating <= 5)) =>
           /\ response'.code = 400
           /\ rows' = rows]_vars

\* C11: the feedback endpoint is write-once.  A request answered with status
\* success has committed exactly one new feedback row, whose id is the
\* feedback_id returned; a request that failed leaves the feedback table as
\* it was; no request changes or removes a row that was there.
C11_WriteOnce ==
    [][(nreq' = nreq + 1 /\ req'.route = "feedback") =>
           /\ rows["feedback"] \subseteq rows'["feedback"]
           /\ \A t \in AllTables \ {"feedback"} : rows'[t] = rows[t]
           /\ response'.status = "success" =>
                  \E r \in rows'["feedback"] \ rows["feedback"] :
                      /\ r.id = response'.feedback_id
                      /\ rows'["feedback"] = rows["feedback"] \cup {r}
           /\ response'.status # "success" => rows'["feedback"] = rows["feedback"]]_vars

\* C10: a row stored by the endpoint has a rating r in 1..5, the reward
\* (r - 3) / 2, which lies in -1..1 and is 1, 0, -1 for r = 5, 3, 1, and the
\* event type like exactly when r >= 4, view otherwise.
C10_RewardAndEventType ==
    \A r \in rows["feedback"] :
        r.owner = Anonymous =>
            /\ r.rating \in 1..5
            /\ r.reward.den > 0
            /\ 2 * r.reward.num = (r.rating - 3) * r.reward.den
            /\ 0 - r.reward.den <= r.reward.num /\ r.reward.num <= r.reward.den
            /\ r.rating = 5 => r.reward = [num |-> 1, den |-> 1]
            /\ r.rating = 3 => r.reward = [num |-> 0, den |-> 1]
            /\ r.rating = 1 => r.reward = [num |-> 0 - 1, den |-> 1]
            /\ r.event_type = IF r.rating >= 4 THEN "like" ELSE "view"

C10_Witness ==
    /\ req.route = "feedback" /\ response.code = 200
    /\ \E r \in rows["feedback"] : r.owner = Anonymous /\ r.rating = 5
    /\ \E r \in rows["feedback"] : r.owner = Anonymous /\ r.rating = 2

----------------------------------------------------------------------------
(* Properties of the export *)

Owned(table, user_id) == {r \in rows[table] : r.owner = user_id}
Listed(bundle) == SeqToSet(bundle["data_types"])

\* C12: export_user_data returns a bundle whatever set of its six helpers
\* failed.  The bundle has export_timestamp and data_types, and data_types
\* lists a kind exactly when the bundle carries that kind's data; the data
\* carried are the user's rows of that kind, and a kind whose helper did
\* not fail is left out only when the user has no row of it that the helper
\* reads.  data_types may be empty.
C12_ExportSurvivesFailures ==
    req.route = "export" =>
        /\ {"user_id", "export_timestamp", "data_types"} \subseteq DOMAIN export_data
        /\ export_data["user_id"] = req.user
        /\ \A k \in ExportKinds :
            /\ k \in Listed(export_data) <=> k \in DOMAIN export_data
            /\ k \in DOMAIN export_data =>
                   /\ export_data[k] # {}
                   /\ export_data[k] = Owned(export_table(k), req.user)
            /\ (k \notin DOMAIN export_data /\ req.outcomes[k] = "ok") =>
                   \/ Owned(export_table(k), req.user) = {}
                   \/ ~postgres /\ k # "user_profile"
        /\ \A i, j \in 1..Len(export_data["data_types"]) :
               i # j => export_data["data_types"][i] # export_data["data_types"][j]

C12_Witness ==
    /\ req.route = "export"
    /\ Cardinality(Failing(req.outcomes)) >= 2
    /\ \E k \in Failing(req.outcomes) : Owned(export_table(k), req.user) # {}
                                         /\ k \notin DOMAIN export_data
    /\ Len(export_data["data_types"]) >= 1

\* the second of two export requests of a user with one deletion sweep for
\* that user, which has returned, between them
ExportDeleteExport ==
    /\ req.route = "export"
    /\ response.code = 200
    /\ req.prev.route = "delete" /\ req.prev.confirm /\ req.prev.user = req.user
    /\ Len(audit) >= 3
    /\ audit[Len(audit) - 2] = ExportAuditRecord(req.user)
    /\ audit[Len(audit) - 1].action = "data_deletion"
    /\ nreq = 3

\* C13: when a user's data are exported, deleted and exported again with no
\* other request in between, no kind that the deletion reports in
\* deleted_data_types is listed in the data_types of the second export.
C13_SecondExportOmitsDeleted ==
    ExportDeleteExport =>
        Listed(export_data) \cap SeqToSet(res.deleted_data_types) = {}

\* C14: an export request changes no row of any table and no stored file,
\* and executes no statement that writes; what it adds is the audit record.
C14_ExportOnlyLogs ==
    [][(nreq' = nreq + 1 /\ req'.route = "export") =>
           /\ rows' = rows
           /\ files' = files
           /\ executed' = executed
           /\ \/ audit' = audit
              \/ audit' = Append(audit, ExportAuditRecord(req'.user))]_vars

C14_Witness ==
    /\ req.route = "export"
    /\ response.code = 200
    /\ Len(export_data["data_types"]) >= 1
    /\ \E s \in Segments : files[s] # {}

----------------------------------------------------------------------------
(* Properties of the data summary *)

Summarized == req.route = "summary"
FileCount(segment, user_id) == Cardinality({f \in files[segment] : Contains(f, user_id)})

C17_SummaryCoversSweep ==
    (Summarized /\ postgres) =>
        /\ \A i \in 1..Len(database_tables) :
               /\ database_tables[i][1] \in DOMAIN response.data_summary
               /\ \E j \in 1..Len(tables_to_check) : tables_to_check[j] = database_tables[i]
        /\ \A s \in Segments : s \in DOMAIN response.files

----------------------------------------------------------------------------
(* Properties of the migration scripts *)

\* the revisions reached from a revision along down_revision in at most n steps
RECURSIVE Ancestors(_, _)
Ancestors(R, n) ==
    IF n = 0 THEN {}
    ELSE LET up == UNION {down_revision(r) : r \in R} IN up \cup Ancestors(up, n - 1)

Heads == {r \in Revisions : \A q \in Revisions : r \notin down_revision(q)}

\* C18: the revisions form a directed acyclic graph with the single root 001
\* and the single head 33ae1ae5b5a6: every down_revision names a revision
\* that exists, no revision is its own ancestor, every revision but the
\* merge revision is the down_revision of another one; and upgrade() runs
\* in an order in which each revision comes after those it revises.
C18_RevisionGraph ==
    /\ \A r \in Revisions : down_revision(r) \subseteq Revisions
    /\ \A r \in Revisions : r \notin Ancestors({r}, Cardinality(Revisions))
    /\ {r \in Revisions : down_revision(r) = {}} = {"001"}
    /\ Heads = {"33ae1ae5b5a6"}
    /\ \A r \in Revisions \ {"33ae1ae5b5a6"} : \E q \in Revisions : r \in down_revision(q)
    /\ \A i \in 1..Len(upgrades) :
           Ancestors({upgrades[i].revision}, Cardinality(Revisions))
               \subseteq {upgrades[j].revision : j \in 1..(i - 1)}

C18_Witness ==
    /\ Applied = Revisions
    /\ upgrades[Len(upgrades)].revision = "33ae1ae5b5a6"

\* C19: a script's upgrade() that runs again right after it ran to its end
\* raises no error and leaves the schema as it is.
C19_UpgradeIdempotent ==
    \A i \in 2..Len(upgrades) :
        (upgrades[i].revision = upgrades[i - 1].revision /\ ~upgrades[i - 1].raised) =>
            /\ ~upgrades[i].raised
            /\ ~upgrades[i].changed

----------------------------------------------------------------------------
(* Properties of the operational scripts *)

AllPassed(results) == \A i \in 1..Len(results) : results[i].passed

\* C20: in both scripts the health flag is the conjunction of the passed
\* fields of the results recorded so far (true while there is none), the
\* results are only ever appended, and a flag that is false stays false.
C20_FlagIsConjunction ==
    /\ [](/\ validator.deployment_healthy = AllPassed(validator.validation_results)
          /\ checker.overall_status = AllPassed(checker.checks))
    /\ [][/\ ~validator.deployment_healthy => ~validator.deployment_healthy'
          /\ ~checker.overall_status => ~checker.overall_status'
          /\ Len(validator'.validation_results) >= Len(validator.validation_results)
          /\ SubSeq(validator'.validation_results, 1, Len(validator.validation_results))
                 = validator.validation_results
          /\ SubSeq(checker'.checks, 1, Len(checker.checks)) = checker.checks]_vars

C20_Witness ==
    /\ Len(validator.validation_results) >= 3
    /\ ~validator.validation_results[1].passed
    /\ validator.validation_results[Len(validator.validation_results)].passed
    /\ ~validator.deployment_healthy
    /\ Len(checker.checks) >= 2
    /\ checker.overall_status

----------------------------------------------------------------------------
(* Properties of the runs of the operational scripts *)

\* the probes of a full validation run, by the name each records
ValidatorProbes ==
    {"Deployment Ready", "Demo Login Available", "Demo Login Flow",
     "CDN Upload URL Generation", "Content Listing", "GDPR Privacy Policy"}
        \cup SeqToSet(core_endpoints) \cup SeqToSet(monitoring_endpoints)
        \cup SeqToSet(performance_tests)

ResultNames == {validator.validation_results[i].test_name :
                    i \in 1..Len(validator.validation_results)}
CheckResultNames == {checker.checks[i].check_name : i \in 1..Len(checker.checks)}
FullRunOver == run.caller = "run_full_validation" /\ run.pc = "returned"

\* C21: when a full run has returned, every probe was executed and has
\* recorded a result of its own, whatever the earlier probes answered; the
\* same for the three authentication checks of the checklist.
C21_EveryProbeRuns ==
    /\ FullRunOver => \A n \in ValidatorProbes : n \in run.sent /\ n \in ResultNames
    /\ run.checked # {} =>
           /\ run.checked = SeqToSet(auth_checks)
           /\ {"Auth debug endpoint", "Demo login available"} \subseteq CheckResultNames
           /\ CheckResultNames \cap {"Supabase integration", "Supabase auth health"} # {}

Started == run.pc # "init"
WaitOver == run.ready # "none"
Ready(passed) ==
    {i \in 1..Len(validator.validation_results) :
        /\ validator.validation_results[i].test_name = "Deployment Ready"
        /\ validator.validation_results[i].passed = passed}

\* C22: wait_for_deployment returns True exactly at the first probe answered
\* with 200, returns False only when the timeout has elapsed, has recorded
\* exactly one 'Deployment Ready' result when it returns (and none before),
\* and always returns while the clock advances.
C22_WaitTerminates ==
    /\ [](/\ run.last = "200" <=> run.ready = "True"
          /\ run.ready = "False" => run.now - run.start_time >= run.timeout
          /\ Cardinality(Ready(TRUE)) = (IF run.ready = "True" THEN 1 ELSE 0)
          /\ Cardinality(Ready(FALSE)) = (IF run.ready = "False" THEN 1 ELSE 0))
    /\ (Started ~> WaitOver)

\* the wait has timed out after a probe that raised and the sleep that followed
C22_Witness ==
    /\ run.ready = "False"
    /\ run.last = "raise"
    /\ run.slept
    /\ run.timeout > 0

\* C23: a health probe that follows an unsuccessful one (an exception or a
\* status other than 200) is made only after a sleep.
C23_SleepsBetweenProbes ==
    (run.pc = "probe" /\ run.last \in {"status", "raise"}) => run.slept

----------------------------------------------------------------------------
(* Further properties of the deletion sweep *)

\* C24: the sweep is not transactional.  No step brings back a row that an
\* earlier step removed, and a table or profile step that failed has itself
\* removed nothing.
C24_NotTransactional ==
    /\ [][\A t \in AllTables : rows'[t] \subseteq rows[t]]_vars
    /\ [](\A i \in 1..Len(steps) :
              (steps[i].step # "files" /\ steps[i].failed) => steps[i].removed = 0)

\* C25: every result of delete_user_data lists 'files' among the deleted
\* kinds, and its status is never 'failed'.
C25_FilesAlwaysListed ==
    Returned =>
        /\ "files" \in SeqToSet(res.deleted_data_types)
        /\ res.status \in {"completed", "partially_completed"}

\* a storage call failed and no file was deleted
C25_Witness ==
    /\ Returned
    /\ steps[1].failed
    /\ steps[1].removed = 0
    /\ res.files_deleted = <<>>

Times(list, x) == Cardinality({j \in 1..Len(list) : list[j] = x})

\* C26: in every result each table and 'user_profile' is listed as deleted
\* once when its delete returned having removed at least one row and not at
\* all otherwise, and is listed as failed once when its delete raised and not
\* at all otherwise.
C26_ListsMatchSteps ==
    Returned =>
        /\ Len(steps) = Len(SweepSteps)
        /\ \A i \in 2..Len(steps) :
            /\ steps[i].step = SweepSteps[i]
            /\ Times(res.deleted_data_types, steps[i].step) =
                   (IF ~steps[i].failed /\ steps[i].removed > 0 THEN 1 ELSE 0)
            /\ Times(res.failed_deletions, steps[i].step) =
                   (IF steps[i].failed THEN 1 ELSE 0)

\* one delete raised, another removed rows
C26_Witness ==
    /\ Returned
    /\ Len(res.failed_deletions) = 1
    /\ Len(res.deleted_data_types) >= 2

\* `user_id in filename`, by positions
Substring(filename, user_id) ==
    \E i \in 1..Len(filename), j \in 1..Len(filename) : SubSeq(filename, i, j) = user_id

\* C28: a step of the file sweep removes only files whose name contains the
\* user's id, and adds to files_deleted exactly the segment/filename pairs of
\* the files it removed; when no storage call failed, no file whose name
\* contains the id is left, whoever owns it.
C28_SubstringMatch ==
    /\ [][pc = "files" =>
            LET segment == segments[idx]
                gone == files[segment] \ files'[segment]
            IN
            /\ \A s \in Segments \ {segment} : files'[s] = files[s]
            /\ files'[segment] \subseteq files[segment]
            /\ \A f \in gone : Substring(f, req.user)
            /\ SeqToSet(res'.files_deleted) \ SeqToSet(res.files_deleted)
                   = {<<segment, f>> : f \in gone}]_vars
    /\ []((Returned /\ faults = 0) =>
              \A s \in Segments : \A f \in files[s] : ~Substring(f, req.user))

\* the sweep for user 1 has deleted a file of user 12
C28_Witness ==
    /\ Returned
    /\ req.user = U1
    /\ \E s \in Segments : <<s, <<1, 2, 7>> >> \in SeqToSet(res.files_deleted)

----------------------------------------------------------------------------
(* Properties of two sweeps served at the same time *)

\* the step of the sweep that deletes from a table
StepOf(table) == IF table = "user" THEN "user_profile" ELSE table

\* the database after the sweep for user_id has run alone on db and has
\* committed the steps in done
SweptAlone(db, user_id, done) ==
    [t \in DOMAIN db |->
        IF StepOf(t) \in done THEN {r \in db[t] : r.owner # user_id} ELSE db[t]]

BothDone == conc.started /\ \A u \in Owners : conc.at[u] > Len(DatabaseSteps)

\* C27: a step of the sweep for a user removes only rows owned by that user,
\* and when two sweeps for different users have both finished, in whatever
\* order their steps were taken, the rows are those left by running one
\* sweep after the other, in either order.
C27_SweepsDoNotInterfere ==
    /\ [][\A u \in Owners :
            (conc.started /\ conc'.at[u] # conc.at[u]) =>
                \A t \in AllTables : \A r \in rows[t] \ rows'[t] : r.owner = u]_vars
    /\ [](BothDone =>
            /\ rows = SweptAlone(SweptAlone(conc.rows0, U1, conc.committed[U1]),
                                 U12, conc.committed[U12])
            /\ rows = SweptAlone(SweptAlone(conc.rows0, U12, conc.committed[U12]),
                                 U1, conc.committed[U1]))

\* both sweeps have finished after steps of one were taken between steps of
\* the other, and each has removed rows
C27_Witness ==
    /\ BothDone
    /\ conc.overlap
    /\ \A u \in Owners : \E t \in AllTables : \E r \in conc.rows0[t] \ rows[t] : r.owner = u

----------------------------------------------------------------------------
(* Properties of feedback rows under the GDPR requests *)

\* the rows the minimal feedback endpoint has written: the id sequence of
\* the table gave each of them its id
Submitted == {r \in rows["feedback"] : r.id >= 1}

\* C29: every row the minimal feedback endpoint has written is owned by
\* 'anonymous'; no request of another user removes such a row, no export
\* bundle holds one, and the feedback count of a summary does not count one.
C29_AnonymousRowsUntouched ==
    /\ [](\A r \in Submitted : r.owner = Anonymous)
    /\ [][Submitted \subseteq rows'["feedback"]]_vars
    /\ []("feedback" \in DOMAIN export_data =>
              \A r \in export_data["feedback"] : r.id < 1)
    /\ []((Summarized /\ "feedback" \in DOMAIN response.data_summary) =>
              response.data_summary["feedback"] =
                  Known(Cardinality({r \in rows["feedback"] \ Submitted :
                                        r.owner = req.user})))

\* a sweep has removed the user's own feedback row and has left the row the
\* endpoint wrote before
C29_Witness ==
    /\ Returned
    /\ Submitted # {}
    /\ steps[2].step = "feedback"
    /\ steps[2].removed > 0

----------------------------------------------------------------------------
(* Properties of the two migration branches *)

\* the revisions run so far, in order
Run == [i \in 1..Len(upgrades) |-> upgrades[i].revision]

\* the schema after the upgrades of the given revisions, run in order on s
RECURSIVE SchemaAfter(_, _)
SchemaAfter(revs, s) ==
    IF revs = <<>> THEN s
    ELSE SchemaAfter(Tail(revs), upgrade(Head(revs), s).schema)

ScriptBranchFirst == <<"001", "003", "004", "postgres_only_fixed">>
PostgresBranchFirst == <<"001", "postgres_only_fixed", "003", "004">>

\* C30: the two branches commute.  When 003, 004 and postgres_only_fixed
\* have run after 001 in one of the two orders, the schema is the one the
\* other order produces, and it has the table script.
C30_BranchesCommute ==
    /\ Run = ScriptBranchFirst =>
           /\ schema = SchemaAfter(PostgresBranchFirst, {})
           /\ HasTable(schema, "script")
    /\ Run = PostgresBranchFirst =>
           /\ schema = SchemaAfter(ScriptBranchFirst, {})
           /\ HasTable(schema, "script")

====
